---- MODULE Spec2Model ----
(***************************************************************************)
(* SVF report transformer (SRT.py).  The driver loads a JSON array of       *)
(* warnings, enriches every warning in place (resolved file path, inferred  *)
(* variable names, code excerpt, success flag and message) and dumps the    *)
(* array.  Text is modelled as sequences of one-character strings, a file   *)
(* as the sequence of its lines as readlines() returns them (terminator     *)
(* kept), a path as the sequence of its components.                         *)
(***************************************************************************)
EXTENDS Integers, Sequences, FiniteSets, TLC

(* ------------------------------------------------------------------ *)
(* Bounds of the explored inputs                                       *)
(* ------------------------------------------------------------------ *)
MaxRecords == 2
MaxConds == 3
MaxLine == 3
MaxCol == 2
MaxRange == 2
MaxWidth == 10
MaxLen == 4

(* ------------------------------------------------------------------ *)
(* Tags and messages                                                   *)
(* ------------------------------------------------------------------ *)
NF == "Never Free"
DF == "Double Free"
UAF == "Use After Free"
PL == "Partial Leak"
DefectType == {NF, DF, UAF, PL}

true == "True"
false == "False"

AC == ""
DFF == "Duplicated Files Found"
NSF == "No Such File"
CIV == "Cannot Infer VarName"
DFFIC == "Duplicated Files Found In Conditions Analysis"
NSFIC == "No Such File In Conditions Analysis"

(* ------------------------------------------------------------------ *)
(* Characters                                                          *)
(* ------------------------------------------------------------------ *)
LowerCase ==
    { "a","b","c","d","e","f","g","h","i","j","k","l","m",
      "n","o","p","q","r","s","t","u","v","w","x","y","z" }
UpperCase ==
    { "A","B","C","D","E","F","G","H","I","J","K","L","M",
      "N","O","P","Q","R","S","T","U","V","W","X","Y","Z" }
Digit == { "0","1","2","3","4","5","6","7","8","9" }
\* what str.lstrip() / str.rstrip() remove
Whitespace == { " ", "\t", "\n", "\r", "\f" }

\* C_VAR_NAME = '[_a-zA-Z]+[_a-zA-Z0-9.\[\]]*'
NameStart == LowerCase \cup UpperCase \cup {"_"}
NameCont == NameStart \cup Digit \cup {".", "[", "]"}

C_CPP_KEYWORDS ==
    { <<"a","u","t","o">>, <<"b","r","e","a","k">>, <<"c","a","s","e">>,
      <<"c","a","t","c","h">>, <<"c","h","a","r">>, <<"c","o","n","s","t">>,
      <<"c","o","n","t","i","n","u","e">>, <<"d","e","f","a","u","l","t">>, <<"d","o">>,
      <<"d","o","u","b","l","e">>, <<"e","l","s","e">>, <<"e","n","u","m">>,
      <<"e","x","t","e","r","n">>, <<"f","l","o","a","t">>, <<"f","o","r">>,
      <<"g","o","t","o">>, <<"i","f">>, <<"i","n","t">>, <<"l","o","n","g">>,
      <<"r","e","g","i","s","t","e","r">>, <<"r","e","t","u","r","n">>,
      <<"s","h","o","r","t">>, <<"s","i","g","n","e","d">>, <<"s","i","z","e","o","f">>,
      <<"s","t","a","t","i","c">>, <<"s","t","r","u","c","t">>, <<"s","w","i","t","c","h">>,
      <<"t","r","y">>, <<"t","y","p","e","d","e","f">>, <<"u","n","i","o","n">>,
      <<"u","n","s","i","g","n","e","d">>, <<"v","o","i","d">>,
      <<"v","o","l","a","t","i","l","e">>, <<"w","h","i","l","e">>, <<"w","h","e","n">> }

Max(a, b) == IF a >= b THEN a ELSE b
Min(a, b) == IF a <= b THEN a ELSE b

(* ------------------------------------------------------------------ *)
(* The source tree: a static snapshot of the filesystem                *)
(* ------------------------------------------------------------------ *)
\* p/s/a.c      int f(){ / <TAB>p=N+q; / }           (last line unterminated)
\* p/d1/b.c     f(x);
\* p/d2/b.c     <empty line> / <SP>g("s");
FileA == <<"p", "s", "a.c">>
FileB1 == <<"p", "d1", "b.c">>
FileB2 == <<"p", "d2", "b.c">>
Files == <<FileA, FileB1, FileB2>>

\* the directories the process may be started in / given as --root_dir
Dirs == { <<"p">>, <<"p", "d1">> }

\* file.readlines()
ReadLines(path) ==
    CASE path = FileA ->
           << <<"i","n","t"," ","f","(",")","{","\n">>,
              <<"\t","p","=","N","+","q",";","\n">>,
              <<"}">> >>
      [] path = FileB1 ->
           << <<"f","(","x",")",";","\n">> >>
      [] path = FileB2 ->
           << <<"\n">>,
              <<" ","g","(","\"","s","\"",")",";","\n">> >>
      [] OTHER -> << >>

\* the bare names a report may mention: two that exist, one that does not
FileNames == { <<"a.c">>, <<"b.c">>, <<"m.c">> }

\* path lies below directory d
IsPrefix(d, path) ==
    /\ Len(d) < Len(path)
    /\ SubSeq(path, 1, Len(d)) = d

\* path ends with the components of pattern
IsSuffix(pattern, path) ==
    /\ Len(pattern) <= Len(path)
    /\ SubSeq(path, Len(path) - Len(pattern) + 1, Len(path)) = pattern

RECURSIVE Matches(_, _, _)
\* the files below dir that match pattern, in directory order
Matches(dir, pattern, i) ==
    IF i > Len(Files) THEN << >>
    ELSE (IF IsPrefix(dir, Files[i]) /\ IsSuffix(pattern, SubSeq(Files[i], Len(dir) + 1, Len(Files[i])))
             THEN << Files[i] >> ELSE << >>)
         \o Matches(dir, pattern, i + 1)

\* list(pathlib.Path().rglob(pattern)) run in directory dir: paths relative to dir
Rglob(dir, pattern) ==
    LET abs == Matches(dir, pattern, 1)
    IN  [k \in 1..Len(abs) |-> SubSeq(abs[k], Len(dir) + 1, Len(abs[k]))]

\* path.absolute() for a path relative to the working directory
Absolute(wd, rel) == wd \o rel

(* ------------------------------------------------------------------ *)
(* Pure helpers of SRT.py                                              *)
(* ------------------------------------------------------------------ *)
\* needle in line  (Python substring test)
Contains(line, needle) ==
    \E i \in 1..(Len(line) - Len(needle) + 1) :
        SubSeq(line, i, i + Len(needle) - 1) = needle

RECURSIVE LStrip(_)
LStrip(s) ==
    IF s # << >> /\ Head(s) \in Whitespace THEN LStrip(Tail(s)) ELSE s

RECURSIVE RStrip(_)
RStrip(s) ==
    IF s # << >> /\ s[Len(s)] \in Whitespace
        THEN RStrip(SubSeq(s, 1, Len(s) - 1)) ELSE s

\* line.lstrip().rstrip()
Strip(s) == RStrip(LStrip(s))

\* the column test written with <= : a line of exactly co characters is rejected
AcceptsColumnStrict(wd, rel, ln, co, func_name) ==
    LET lines == ReadLines(Absolute(wd, rel))
    IN  /\ ~ (Len(lines) < ln)
        /\ ~ (Len(lines[ln]) <= co)
        /\ \/ func_name = << >>
           \/ \E k \in 1..ln : Contains(lines[k], func_name)

\* the test of one candidate inside deal_duplicate's loop (lines 76-91)
Accepts(wd, rel, ln, co, func_name) ==
    LET lines == ReadLines(Absolute(wd, rel))
    IN  /\ ~ (Len(lines) < ln)
        /\ ~ (Len(lines[ln]) < co)
        /\ \/ func_name = << >>
           \/ \E k \in 1..ln : Contains(lines[k], func_name)

RECURSIVE Survivors(_, _, _, _, _)
\* the list res built by deal_duplicate's loop
Survivors(wd, files, ln, co, func_name) ==
    IF files = << >> THEN << >>
    ELSE (IF Accepts(wd, Head(files), ln, co, func_name)
             THEN << Head(files) >> ELSE << >>)
         \o Survivors(wd, Tail(files), ln, co, func_name)

None == << "None" >>

deal_duplicate(wd, ln, co, files, func_name) ==
    LET res == Survivors(wd, files, ln, co, func_name)
    IN  IF Len(res) > 1 THEN [flag |-> 1, file |-> None]
        ELSE IF Len(res) = 1 THEN [flag |-> 0, file |-> res[1]]
        ELSE [flag |-> -1, file |-> None]

\* written as s.isupper(): a name without any letter is not all-caps
IsUpperWithLetter(s) ==
    /\ \E i \in 1..Len(s) : s[i] \in UpperCase
    /\ \A i \in 1..Len(s) : s[i] \notin LowerCase

\* letters = [char for char in s if char.isalpha()]; all(letter.isupper() ...)
are_all_letters_uppercase(s) ==
    \A i \in 1..Len(s) :
        s[i] \in (LowerCase \cup UpperCase) => s[i] \in UpperCase

\* end (exclusive, 0-based = inclusive, 1-based) of the match starting at i
RECURSIVE MatchEnd(_, _)
MatchEnd(line, i) ==
    IF i + 1 <= Len(line) /\ line[i + 1] \in NameCont
        THEN MatchEnd(line, i + 1) ELSE i

RECURSIVE FindIter(_, _)
\* C_VAR_NAME.finditer(line): the spans [start, end] (1-based, inclusive),
\* leftmost first, not overlapping, each as long as possible
FindIter(line, i) ==
    IF i > Len(line) THEN << >>
    ELSE IF line[i] \in NameStart
        THEN LET e == MatchEnd(line, i)
             IN  << [start |-> i, end |-> e] >> \o FindIter(line, e + 1)
        ELSE FindIter(line, i + 1)

\* the membership test left out
InSeqNever(x, s) == FALSE

InSeq(x, s) == \E k \in 1..Len(s) : s[k] = x

\* only the character before the span is looked at
AdjacentBeforeOnly(lstr, span) ==
    LET before == lstr[Max(0, span.start - 2) + 1]
    IN  \/ before = "'" \/ before = "\""
        \/ before = ")"

\* the first test of name_filter (lines 119-122); a span holds the 1-based
\* inclusive positions, so Python's start is span.start - 1 and end is span.end
Adjacent(lstr, span) ==
    LET before == lstr[Max(0, span.start - 2) + 1]
        after == lstr[Min(Len(lstr) - 1, span.end) + 1]
    IN  \/ before = "'" \/ before = "\""
        \/ after = "'" \/ after = "\""
        \/ before = ")" \/ after = "("

RECURSIVE NameLoop(_, _, _, _)
NameLoop(lstr, it, cap_assert, res) ==
    IF it = << >> THEN res
    ELSE LET span == Head(it)
             tok == SubSeq(lstr, span.start, span.end)
         IN  IF Adjacent(lstr, span)
                 THEN NameLoop(lstr, Tail(it), cap_assert, res)
             ELSE IF /\ ~ InSeq(tok, res)
                     /\ tok \notin C_CPP_KEYWORDS
                     /\ (~ are_all_letters_uppercase(tok) \/ ~ cap_assert)
                 THEN NameLoop(lstr, Tail(it), cap_assert, Append(res, tok))
             ELSE NameLoop(lstr, Tail(it), cap_assert, res)

name_filter(lstr, it, cap_assert) == NameLoop(lstr, it, cap_assert, << >>)

\* the window cut one line short at its end
ExcerptShort(lines, l, R) ==
    LET lo == Max(0, l - 1 - R)
        hi == Min(Len(lines), l + R - 1)
    IN  [k \in 1..Max(0, hi - lo) |-> Strip(lines[lo + k])]

\* lines[max(0, l - 1 - R) : min(len(lines), l + R)], each stripped
Excerpt(lines, l, R) ==
    LET lo == Max(0, l - 1 - R)
        hi == Min(Len(lines), l + R)
    IN  [k \in 1..Max(0, hi - lo) |-> Strip(lines[lo + k])]

(* ------------------------------------------------------------------ *)
(* State                                                               *)
(* ------------------------------------------------------------------ *)
VARIABLES
    cwd,            \* working directory of the process: where pathlib.Path() points
    rdir,           \* args.root_dir
    copy_range,     \* args.copy_range
    cap_not_name,   \* args.cap_not_name
    in_json,        \* the array stored in args.input_file
    report,         \* the loaded array, mutated in place
    cnt,            \* 0-based index of the warning being processed, -1 before the first
    pc,             \* position of the driver
    ci,             \* number of conditional paths of the current warning already visited
    src_file,       \* local src_file
    open_files,     \* files held open by an enclosing with-block
    out_json,       \* the documents stored in args.output_file: none before the dump
    call,           \* arguments of a helper applied on its own, NoCall in a run of the driver
    result          \* what that helper returned, NoCall before it returns

vars == << cwd, rdir, copy_range, cap_not_name, in_json, report, cnt, pc, ci,
           src_file, open_files, out_json, call, result >>

NoCall == << "NoCall" >>

NotWritten == << >>
\* pathlib.Path()
EmptyPath == << >>

(* ------------------------------------------------------------------ *)
(* Input reports                                                       *)
(* ------------------------------------------------------------------ *)
SeqsUpTo(S, n) == UNION { [1..k -> S] : k \in 0..n }

Cond(fl, ln) ==
    [BranchLoc |-> [fl |-> fl, ln |-> ln], BranchCond |-> true]

Warn(dt, fl, ln, cl, fn, cfp) ==
    [DefectType |-> dt,
     Location |-> [fl |-> fl, ln |-> ln, cl |-> cl],
     Function |-> fn,
     Description |-> [ConditionalFreePath |-> cfp]]

FuncNames == { << >>, <<"f">> }

\* warnings of several records per report: every file name, both hints
WarnsDriver ==
    { Warn(dt, fl, 1, 0, fn, << >>) :
        dt \in {NF, PL}, fl \in FileNames, fn \in FuncNames }

\* one warning, every primary location, at most one conditional path
WarnsPrimary ==
    { Warn(dt, fl, ln, cl, fn, << >>) :
        dt \in DefectType, fl \in FileNames, ln \in 1..MaxLine,
        cl \in 0..MaxCol, fn \in FuncNames }
    \cup
    { Warn(PL, fl, ln, cl, fn, << Cond(bf, bl) >>) :
        fl \in FileNames, ln \in 1..MaxLine, cl \in 0..MaxCol, fn \in FuncNames,
        bf \in FileNames, bl \in 1..MaxLine }

CondsPartial == { Cond(bf, bl) : bf \in FileNames, bl \in {1, MaxLine} }

\* one Partial Leak warning on a.c, every list of conditional paths
WarnsPartial ==
    { Warn(PL, <<"a.c">>, ln, cl, << >>, cfp) :
        ln \in 1..MaxLine, cl \in {0, MaxCol}, cfp \in SeqsUpTo(CondsPartial, MaxConds) }

InitCommon ==
    /\ in_json = report
    /\ cnt = -1
    /\ pc = "loop"
    /\ ci = 0
    /\ src_file = EmptyPath
    /\ open_files = {}
    /\ out_json = NotWritten
    /\ call = NoCall
    /\ result = NoCall

InitDriver ==
    /\ cwd \in Dirs
    /\ rdir = cwd
    /\ copy_range = 1
    /\ cap_not_name = TRUE
    /\ report \in SeqsUpTo(WarnsDriver, MaxRecords)
    /\ InitCommon

InitPrimary ==
    /\ cwd \in Dirs
    /\ rdir \in Dirs
    /\ copy_range \in 1..MaxRange
    /\ cap_not_name \in BOOLEAN
    /\ report \in { << w >> : w \in WarnsPrimary }
    /\ InitCommon

InitPartial ==
    /\ cwd = <<"p">>
    /\ rdir = cwd
    /\ copy_range = 1
    /\ cap_not_name = TRUE
    /\ report \in { << w >> : w \in WarnsPartial }
    /\ InitCommon

\* the state after json.load: three families of reports
Init == InitDriver \/ InitPrimary \/ InitPartial

(* ------------------------------------------------------------------ *)
(* The per-warning loop                                                *)
(* ------------------------------------------------------------------ *)
\* 1-based position in report of the warning whose 0-based index is cnt
Cur == cnt + 1

\* a failure branch that forgets the flag
FailWithoutFlag(w, msg) ==
    [w EXCEPT !.TransformMessage = msg]

\* a failure branch that forgets the message
FailWithoutMessage(w, msg) ==
    [w EXCEPT !.SuccessTransform = false]

\* a failure branch that also resets what was inferred
FailResetsInferred(w, msg) ==
    [w EXCEPT !.SuccessTransform = false, !.TransformMessage = msg,
              !.Var = << >>, !.CodeNear = << >>]

Fail(w, msg) ==
    [w EXCEPT !.SuccessTransform = false, !.TransformMessage = msg]

\* lines 160-199: next warning, the four new keys, resolution of Location.fl
BeginWarn ==
    /\ pc = "loop"
    /\ cnt + 1 < Len(report)
    /\ LET i == cnt + 2
           w == [Var |-> << >>, CodeNear |-> << >>,
                 SuccessTransform |-> "", TransformMessage |-> ""] @@ report[i]
           svf_file == w.Location.fl
           ori_path == Rglob(cwd, svf_file)
           r == deal_duplicate(cwd, w.Location.ln, w.Location.cl, ori_path, w.Function)
       IN  /\ cnt' = cnt + 1
           /\ IF Len(ori_path) = 1
                 THEN /\ report' = [report EXCEPT ![i] =
                                        [w EXCEPT !.Location.fl = ori_path[1]]]
                      /\ src_file' = ori_path[1]
                      /\ pc' = "read"
              ELSE IF Len(ori_path) = 0
                 THEN /\ report' = [report EXCEPT ![i] = Fail(w, NSF)]
                      /\ src_file' = EmptyPath
                      /\ pc' = "loop"
              ELSE IF r.flag = 1
                 THEN /\ report' = [report EXCEPT ![i] = Fail(w, DFF)]
                      /\ src_file' = r.file
                      /\ pc' = "loop"
              ELSE IF r.flag = -1
                 THEN /\ report' = [report EXCEPT ![i] = Fail(w, NSF)]
                      /\ src_file' = r.file
                      /\ pc' = "loop"
              ELSE /\ report' = [report EXCEPT ![i] = w]
                   /\ src_file' = r.file
                   /\ pc' = "read"
    /\ UNCHANGED << call, result, cwd, rdir, copy_range, cap_not_name, in_json, ci, open_files, out_json >>

\* lines 201-218: read the resolved file, infer names, excerpt; an uncaught
\* IndexError at lines[l - 1] ends the process
ReadPrimary ==
    /\ pc = "read"
    /\ LET w == report[Cur]
           adir == Absolute(cwd, src_file)
           lines == ReadLines(adir)
           l == w.Location.ln
       IN  IF l > Len(lines)
              THEN /\ pc' = "crashed"
                   /\ open_files' = {}
                   /\ UNCHANGED << report, ci >>
           ELSE LET line == lines[l]
                    var_name == name_filter(line, FindIter(line, 1), cap_not_name)
                IN  /\ report' = [report EXCEPT ![Cur] =
                                     [w EXCEPT !.Var = var_name,
                                               !.CodeNear = Excerpt(lines, l, copy_range)]]
                    /\ IF w.DefectType = PL
                          THEN /\ pc' = "cond"
                               /\ ci' = 0
                               /\ open_files' = {adir}
                          ELSE /\ pc' = "final"
                               /\ ci' = ci
                               /\ open_files' = {}
    /\ UNCHANGED << call, result, cwd, rdir, copy_range, cap_not_name, in_json, cnt, src_file, out_json >>

\* the warning with its k-th conditional path replaced
SetCond(w, k, c) ==
    [w EXCEPT !.Description.ConditionalFreePath[k] = c]

\* a conditional-path step that disambiguates with the branch's line
CondPathBranchLine ==
    /\ pc = "cond"
    /\ ci < Len(report[Cur].Description.ConditionalFreePath)
    /\ LET w == report[Cur]
           k == ci + 1
           cond == w.Description.ConditionalFreePath[k]
           l == cond.BranchLoc.ln
           svf_file == cond.BranchLoc.fl
           ori_path == Rglob(cwd, svf_file)
           r == deal_duplicate(cwd, l, w.Location.cl, ori_path, << >>)
           resolved == Len(ori_path) = 1 \/ (Len(ori_path) > 1 /\ r.flag = 0)
           file == IF Len(ori_path) = 1 THEN ori_path[1] ELSE r.file
           cond1 == IF Len(ori_path) = 1
                       THEN [cond EXCEPT !.BranchLoc.fl = ori_path[1]] ELSE cond
           lines == ReadLines(Absolute(cwd, file))
       IN  IF ~ resolved
              THEN /\ report' = [report EXCEPT ![Cur] =
                          Fail(w, IF Len(ori_path) = 0 THEN NSF
                                  ELSE IF r.flag = 1 THEN DFFIC ELSE NSFIC)]
                   /\ src_file' = (IF Len(ori_path) = 0 THEN EmptyPath ELSE r.file)
                   /\ ci' = ci + 1
                   /\ UNCHANGED << pc, open_files >>
           ELSE IF l > Len(lines)
              THEN /\ report' = [report EXCEPT ![Cur] = SetCond(w, k, cond1)]
                   /\ src_file' = file
                   /\ pc' = "crashed"
                   /\ open_files' = {}
                   /\ UNCHANGED ci
           ELSE /\ report' = [report EXCEPT ![Cur] =
                       SetCond(w, k, ("CodeNear" :> Strip(lines[l])) @@ cond1)]
                /\ src_file' = file
                /\ ci' = ci + 1
                /\ UNCHANGED << pc, open_files >>
    /\ UNCHANGED << call, result, cwd, rdir, copy_range, cap_not_name, in_json, cnt, out_json >>

\* lines 220-256: one iteration of the loop over the conditional paths
CondPath ==
    /\ pc = "cond"
    /\ ci < Len(report[Cur].Description.ConditionalFreePath)
    /\ LET w == report[Cur]
           k == ci + 1
           cond == w.Description.ConditionalFreePath[k]
           l == cond.BranchLoc.ln
           svf_file == cond.BranchLoc.fl
           ori_path == Rglob(cwd, svf_file)
           r == deal_duplicate(cwd, w.Location.ln, w.Location.cl, ori_path, << >>)
           resolved == Len(ori_path) = 1 \/ (Len(ori_path) > 1 /\ r.flag = 0)
           file == IF Len(ori_path) = 1 THEN ori_path[1] ELSE r.file
           cond1 == IF Len(ori_path) = 1
                       THEN [cond EXCEPT !.BranchLoc.fl = ori_path[1]] ELSE cond
           lines == ReadLines(Absolute(cwd, file))
       IN  IF ~ resolved
              THEN /\ report' = [report EXCEPT ![Cur] =
                          Fail(w, IF Len(ori_path) = 0 THEN NSF
                                  ELSE IF r.flag = 1 THEN DFFIC ELSE NSFIC)]
                   /\ src_file' = (IF Len(ori_path) = 0 THEN EmptyPath ELSE r.file)
                   /\ ci' = ci + 1
                   /\ UNCHANGED << pc, open_files >>
           ELSE IF l > Len(lines)
              THEN /\ report' = [report EXCEPT ![Cur] = SetCond(w, k, cond1)]
                   /\ src_file' = file
                   /\ pc' = "crashed"
                   /\ open_files' = {}
                   /\ UNCHANGED ci
           ELSE /\ report' = [report EXCEPT ![Cur] =
                       SetCond(w, k, ("CodeNear" :> Strip(lines[l])) @@ cond1)]
                /\ src_file' = file
                /\ ci' = ci + 1
                /\ UNCHANGED << pc, open_files >>
    /\ UNCHANGED << call, result, cwd, rdir, copy_range, cap_not_name, in_json, cnt, out_json >>

\* the loop over the conditional paths is exhausted: code_file is closed
CondDone ==
    /\ pc = "cond"
    /\ ci = Len(report[Cur].Description.ConditionalFreePath)
    /\ pc' = "final"
    /\ open_files' = {}
    /\ UNCHANGED << call, result, cwd, rdir, copy_range, cap_not_name, in_json, report, cnt, ci,
                    src_file, out_json >>

\* lines 257-258
\* a finalize that reports a warning without inferred names
FinalizeChecksVar ==
    /\ pc = "final"
    /\ report' = [report EXCEPT ![Cur] =
                      IF @.Var = << >> THEN Fail(@, CIV)
                      ELSE [@ EXCEPT !.SuccessTransform = true, !.TransformMessage = AC]]
    /\ pc' = "loop"
    /\ UNCHANGED << call, result, cwd, rdir, copy_range, cap_not_name, in_json, cnt, ci, src_file,
                    open_files, out_json >>

Finalize ==
    /\ pc = "final"
    /\ report' = [report EXCEPT ![Cur] =
                      [@ EXCEPT !.SuccessTransform = true, !.TransformMessage = AC]]
    /\ pc' = "loop"
    /\ UNCHANGED << call, result, cwd, rdir, copy_range, cap_not_name, in_json, cnt, ci, src_file,
                    open_files, out_json >>

\* a dump that keeps only the warnings that succeeded
DumpSuccessesOnly ==
    /\ pc = "loop"
    /\ cnt + 1 = Len(report)
    /\ out_json' = << SelectSeq(report, LAMBDA w : w.SuccessTransform = true) >>
    /\ pc' = "done"
    /\ UNCHANGED << call, result, cwd, rdir, copy_range, cap_not_name, in_json, report,
                    cnt, ci, src_file, open_files >>

\* lines 260-262: json.dump after the last warning
Dump ==
    /\ pc = "loop"
    /\ cnt + 1 = Len(report)
    /\ out_json' = << report >>
    /\ pc' = "done"
    /\ UNCHANGED << call, result, cwd, rdir, copy_range, cap_not_name, in_json, report, cnt, ci,
                    src_file, open_files >>

Next ==
    \/ BeginWarn
    \/ ReadPrimary
    \/ CondPath
    \/ CondDone
    \/ Finalize
    \/ Dump

Spec == Init /\ [][Next]_vars

(* ------------------------------------------------------------------ *)
(* deal_duplicate applied on its own                                   *)
(* ------------------------------------------------------------------ *)
\* the paths, relative to p, a caller may hand over
RelFiles == { <<"s", "a.c">>, <<"d1", "b.c">>, <<"d2", "b.c">> }

\* lists of distinct candidates
FileLists ==
    { fs \in SeqsUpTo(RelFiles, Cardinality(RelFiles)) :
        \A a, b \in 1..Len(fs) : a # b => fs[a] # fs[b] }

Hints == { << >>, <<"f">>, <<"g", "(">>, <<"z">> }

InitDD ==
    /\ cwd = <<"p">>
    /\ rdir = cwd
    /\ copy_range = 1
    /\ cap_not_name = TRUE
    /\ report = << >>
    /\ in_json = report
    /\ cnt = -1
    /\ pc = "call"
    /\ ci = 0
    /\ src_file = EmptyPath
    /\ open_files = {}
    /\ out_json = NotWritten
    /\ call \in [ln : 1..MaxLine, co : 0..MaxWidth, files : FileLists, func_name : Hints]
    /\ result = NoCall

CallDealDuplicate ==
    /\ pc = "call"
    /\ result' = deal_duplicate(cwd, call.ln, call.co, call.files, call.func_name)
    /\ pc' = "returned"
    /\ UNCHANGED << call, cwd, rdir, copy_range, cap_not_name, in_json, report, cnt, ci,
                    src_file, open_files, out_json >>

NextDD == CallDealDuplicate

SpecDD == InitDD /\ [][NextDD]_vars

(* ------------------------------------------------------------------ *)
(* What the claims speak about                                         *)
(* ------------------------------------------------------------------ *)
FileSet == { Files[k] : k \in 1..Len(Files) }

\* the files below dir whose basename is the bare name
CandidatesUnder(dir, name) ==
    { f \in FileSet :
        /\ Len(dir) < Len(f)
        /\ SubSeq(f, 1, Len(dir)) = dir
        /\ << f[Len(f)] >> = name }

\* file f has a line ln of at least co characters (as read, terminator
\* included) and, for a non-empty hint, the hint within its first ln lines
Corroborated(f, ln, co, hint) ==
    LET ls == ReadLines(f)
    IN  /\ Len(ls) >= ln
        /\ Len(ls[ln]) >= co
        /\ (hint # << >> => \E k \in 1..ln : Contains(ls[k], hint))

\* the Path Resolver's contract: Ok(file) | NotFound | Ambiguous
Resolution(dir, name, ln, co, hint) ==
    LET c == CandidatesUnder(dir, name)
        kept == IF Cardinality(c) <= 1 THEN c
                ELSE { f \in c : Corroborated(f, ln, co, hint) }
    IN  IF kept = {} THEN [tag |-> "NotFound"]
        ELSE IF Cardinality(kept) = 1
            THEN [tag |-> "Ok", file |-> CHOOSE f \in kept : TRUE]
        ELSE [tag |-> "Ambiguous"]

\* resolution of the primary location of the i-th warning of the input
Primary(i) ==
    LET w == in_json[i]
    IN  Resolution(cwd, w.Location.fl, w.Location.ln, w.Location.cl, w.Function)

RelativeTo(dir, f) == SubSeq(f, Len(dir) + 1, Len(f))

\* the driver has begun the i-th warning
Started(i) == i \in 1..Len(report) /\ i <= Cur

\* the driver has left the i-th warning behind
Finished(i) ==
    /\ i \in 1..Len(report)
    /\ \/ i < Cur
       \/ i = Cur /\ pc \in {"loop", "done"}

\* the loop over the conditional paths of the i-th warning has passed path k
Visited(i, k) ==
    \/ i < Cur
    \/ i = Cur /\ pc = "cond" /\ k <= ci
    \/ i = Cur /\ pc \in {"final", "loop", "done"}

CFP(w) == w.Description.ConditionalFreePath

Enrichment == { "Var", "CodeNear", "SuccessTransform", "TransformMessage" }

(* C1: a Partial Leak warning whose primary location resolved and one of  *)
(* whose conditional paths did not resolve (it was visited and got no     *)
(* excerpt) leaves the pipeline with SuccessTransform = "False" and a     *)
(* non-empty TransformMessage.                                            *)
C1_FailedPathFailsRecord ==
    \A i \in 1..Len(report) :
        ( /\ Finished(i)
          /\ report[i].DefectType = PL
          /\ Primary(i).tag = "Ok"
          /\ \E k \in 1..Len(CFP(report[i])) :
                 "CodeNear" \notin DOMAIN CFP(report[i])[k] )
        => /\ report[i].SuccessTransform = false
           /\ report[i].TransformMessage # ""

(* C2: when the primary location is NotFound or Ambiguous the warning is  *)
(* exactly its input plus Var = [], CodeNear = [], SuccessTransform =     *)
(* "False" and TransformMessage = "No Such File" (NotFound) or            *)
(* "Duplicated Files Found" (Ambiguous): no conditional path and no file  *)
(* field is touched, and the driver is back at the head of the loop.      *)
C2_PrimaryFailureSkipsRecord ==
    \A i \in 1..Len(report) :
        (Started(i) /\ Primary(i).tag \in {"NotFound", "Ambiguous"})
        => /\ report[i] =
                 [Var |-> << >>, CodeNear |-> << >>, SuccessTransform |-> false,
                  TransformMessage |->
                      IF Primary(i).tag = "NotFound" THEN NSF ELSE DFF] @@ in_json[i]
           /\ (i = Cur => pc \in {"loop", "done"})

\* a second warning has been begun after an ambiguous first one
C2_Witness ==
    /\ cnt = 1
    /\ Primary(1).tag = "Ambiguous"
    /\ report[1].TransformMessage = DFF
    /\ Primary(2).tag = "NotFound"
    /\ report[2].TransformMessage = NSF

(* C3: once a conditional path of a warning has been visited without      *)
(* resolving (it got no excerpt), every later conditional path of that     *)
(* warning stays as it was in the input: not resolved, no excerpt.         *)
C3_FirstFailureEndsLoop ==
    \A i \in 1..Len(report) :
        \A k, k2 \in 1..Len(CFP(report[i])) :
            ( /\ Started(i)
              /\ k < k2
              /\ Visited(i, k)
              /\ "CodeNear" \notin DOMAIN CFP(report[i])[k] )
            => CFP(report[i])[k2] = CFP(in_json[i])[k2]

(* C4: every warning the driver has left behind has SuccessTransform       *)
(* "True" or "False"; "False" comes with a non-empty TransformMessage and  *)
(* "True" with the empty one.                                              *)
C4_StatusPairsWithMessage ==
    \A i \in 1..Len(report) :
        Finished(i)
        => /\ report[i].SuccessTransform \in {true, false}
           /\ (report[i].SuccessTransform = false => report[i].TransformMessage # "")
           /\ (report[i].SuccessTransform = true => report[i].TransformMessage = "")

\* a dumped report with a failed warning followed by a successful Partial Leak
C4_Witness ==
    /\ pc = "done"
    /\ Len(report) = 2
    /\ report[1].SuccessTransform = false
    /\ report[1].TransformMessage = DFF
    /\ report[2].SuccessTransform = true
    /\ report[2].DefectType = PL

(* C5: no problem with a single warning ends the run: the driver never     *)
(* aborts on the way to the dump.                                          *)
C5_RunNeverAborts == pc # "crashed"

(* C6: once the driver has begun a warning, its Location file is the       *)
(* resolved path exactly when the primary resolution is Ok (one match, or  *)
(* several matches corroborated down to one), and the bare input name      *)
(* otherwise.                                                              *)
C6_LocationOverwrittenOnOk ==
    \A i \in 1..Len(report) :
        Started(i)
        => report[i].Location.fl =
               IF Primary(i).tag = "Ok"
                   THEN RelativeTo(cwd, Primary(i).file)
                   ELSE in_json[i].Location.fl

(* C7: deal_duplicate keeps exactly the candidates with at least ln lines, *)
(* whose ln-th line (as read) has at least co characters and, for a        *)
(* non-empty hint, with the hint inside one of the first ln lines; it      *)
(* returns -1 when none is kept, 0 with that candidate when one is kept,   *)
(* 1 when more than one is kept.                                           *)
C7_DealDuplicateContract ==
    pc = "returned"
    => LET kept == { j \in 1..Len(call.files) :
                       Corroborated(Absolute(cwd, call.files[j]),
                                    call.ln, call.co, call.func_name) }
       IN  /\ kept = {} => result = [flag |-> -1, file |-> None]
           /\ Cardinality(kept) = 1
                  => result = [flag |-> 0, file |-> call.files[CHOOSE j \in kept : TRUE]]
           /\ Cardinality(kept) > 1 => result = [flag |-> 1, file |-> None]

\* two files named b.c, only p/d2/b.c has a second line: that one is returned
C7_Witness ==
    /\ pc = "returned"
    /\ call.files = << <<"d1", "b.c">>, <<"d2", "b.c">> >>
    /\ call.ln = 2
    /\ call.co = Len(ReadLines(FileB2)[2])
    /\ call.func_name = <<"g", "(">>
    /\ result = [flag |-> 0, file |-> <<"d2", "b.c">>]

(* C8: a file name with exactly one match below the configured root_dir   *)
(* resolves to that match wherever the process runs: after the resolution *)
(* step src_file is that file and the warning is not failed.              *)
C8_SearchesRootDir ==
    (cnt >= 0 /\ Cardinality(CandidatesUnder(rdir, in_json[Cur].Location.fl)) = 1)
    => /\ pc = "read" => Absolute(cwd, src_file) \in
                             CandidatesUnder(rdir, in_json[Cur].Location.fl)
       /\ pc = "loop" => report[Cur].SuccessTransform # false

\* the output warning differs from the input one only by the four new keys,
\* the file fields and CodeNear on conditional paths
Preserves(win, wout) ==
    /\ DOMAIN wout = DOMAIN win \cup Enrichment
    /\ wout.DefectType = win.DefectType
    /\ wout.Function = win.Function
    /\ DOMAIN wout.Location = DOMAIN win.Location
    /\ wout.Location.ln = win.Location.ln
    /\ wout.Location.cl = win.Location.cl
    /\ DOMAIN wout.Description = DOMAIN win.Description
    /\ Len(CFP(wout)) = Len(CFP(win))
    /\ \A k \in 1..Len(CFP(win)) :
           /\ DOMAIN CFP(wout)[k] \ {"CodeNear"} = DOMAIN CFP(win)[k]
           /\ CFP(wout)[k].BranchCond = CFP(win)[k].BranchCond
           /\ DOMAIN CFP(wout)[k].BranchLoc = DOMAIN CFP(win)[k].BranchLoc
           /\ CFP(wout)[k].BranchLoc.ln = CFP(win)[k].BranchLoc.ln

(* C9: the dumped array has the length and the order of the input array   *)
(* and every dumped warning keeps its original fields: only the four new  *)
(* keys are added, file fields may change, conditional paths may gain     *)
(* CodeNear.                                                               *)
C9_OutputPreservesInput ==
    pc = "done"
    => /\ Len(out_json) = 1
       /\ Len(out_json[1]) = Len(in_json)
       /\ \A i \in 1..Len(in_json) : Preserves(in_json[i], out_json[1][i])

\* a dumped report of two different warnings, the first failed, the second
\* a resolved Partial Leak
C9_Witness ==
    /\ pc = "done"
    /\ Len(in_json) = 2
    /\ in_json[1].DefectType = NF
    /\ in_json[2].DefectType = PL
    /\ out_json[1][1].TransformMessage = NSF
    /\ out_json[1][2].Location.fl # in_json[2].Location.fl

\* s without its leading and trailing whitespace
Trimmed(s) ==
    LET keep == { k \in 1..Len(s) : s[k] \notin Whitespace }
    IN  IF keep = {} THEN << >>
        ELSE SubSeq(s, CHOOSE a \in keep : \A b \in keep : a <= b,
                       CHOOSE a \in keep : \A b \in keep : a >= b)

\* name inference and excerpt have been stored for the i-th warning
Excerpted(i) ==
    /\ i \in 1..Len(report)
    /\ \/ i = Cur /\ pc \in {"cond", "final"}
       \/ Finished(i) /\ report[i].SuccessTransform = true

(* C10: for a resolved warning at line L, 1 <= L <= lastLine, CodeNear is *)
(* the lines max(1, L - R) .. min(lastLine, L + R) of the resolved file,  *)
(* in order, each trimmed: at most 2R + 1 entries, line L among them.     *)
C10_ExcerptWindow ==
    \A i \in 1..Len(report) :
        Excerpted(i)
        => /\ Primary(i).tag = "Ok"
           /\ LET lines == ReadLines(Primary(i).file)
                  L == in_json[i].Location.ln
                  lo == Max(1, L - copy_range)
                  hi == Min(Len(lines), L + copy_range)
                  code == report[i].CodeNear
              IN  (1 <= L /\ L <= Len(lines))
                  => /\ Len(code) = hi - lo + 1
                     /\ \A n \in lo..hi : code[n - lo + 1] = Trimmed(lines[n])
                     /\ Len(code) <= 2 * copy_range + 1
                     /\ code[L - lo + 1] = Trimmed(lines[L])

\* a window clamped at the end only: line 3 of the 3-line a.c with R = 1,
\* and the indented line 2 is trimmed
C10_Witness ==
    /\ pc = "done"
    /\ Len(report) = 1
    /\ copy_range = 1
    /\ Primary(1).tag = "Ok"
    /\ Primary(1).file = FileA
    /\ in_json[1].Location.ln = 3
    /\ report[1].CodeNear = << <<"p","=","N","+","q",";">>, <<"}">> >>

(* ------------------------------------------------------------------ *)
(* name_filter applied on its own                                      *)
(* ------------------------------------------------------------------ *)
\* the characters short lines are made of: letters of both cases, a name
\* character that is no letter, a digit, quotes, parentheses, a blank
Alphabet == { "d", "o", "A", "_", "1", "\"", "'", "(", ")", " " }

\* longer lines
ExampleLines ==
    { <<"i","n","t"," ","f","o","r"," ","="," ","w","h","i","l","e",";","\n">>,
      <<"x"," ","="," ","\"","a","b","c","\"",";","\n">>,
      <<"M","A","X","_","S","I","Z","E"," ","+"," ","c","o","u","n","t","\n">>,
      <<"o","(","d"," ","o">>,
      <<"a","[","1","]",".","b"," ","="," ","a","[","1","]",".","b">>,
      <<"c"," ","="," ","'","c","'"," ","+"," ","_","1",";">> }

SourceLines == SeqsUpTo(Alphabet, MaxLen) \cup ExampleLines

InitNF ==
    /\ cwd = <<"p">>
    /\ rdir = cwd
    /\ copy_range = 1
    /\ cap_not_name \in BOOLEAN
    /\ report = << >>
    /\ in_json = report
    /\ cnt = -1
    /\ pc = "call"
    /\ ci = 0
    /\ src_file = EmptyPath
    /\ open_files = {}
    /\ out_json = NotWritten
    /\ call \in [line : SourceLines]
    /\ result = NoCall

\* lines 208-209: var_name = name_filter(line, C_VAR_NAME.finditer(line), args.cap_not_name)
CallNameFilter ==
    /\ pc = "call"
    /\ result' = name_filter(call.line, FindIter(call.line, 1), cap_not_name)
    /\ pc' = "returned"
    /\ UNCHANGED << call, cwd, rdir, copy_range, cap_not_name, in_json, report, cnt, ci,
                    src_file, open_files, out_json >>

NextNF == CallNameFilter

SpecNF == InitNF /\ [][NextNF]_vars

\* position s begins a match of C_VAR_NAME: no name can have begun earlier
\* and run up to s
IsStart(line, s) ==
    /\ line[s] \in NameStart
    /\ \A j \in 1..(s - 1) :
           (\A m \in j..(s - 1) : line[m] \in NameCont) => line[j] \notin NameStart

\* the candidate spans of a line: maximal runs of name characters
Spans(line) ==
    { sp \in [start : 1..Len(line), end : 1..Len(line)] :
        /\ sp.start <= sp.end
        /\ IsStart(line, sp.start)
        /\ \A m \in sp.start..sp.end : line[m] \in NameCont
        /\ sp.end < Len(line) => line[sp.end + 1] \notin NameCont }

Text(line, sp) == SubSeq(line, sp.start, sp.end)

\* a neighbour exists and is a quote or the parenthesis facing the span
NeighbourDrop(line, sp) ==
    \/ sp.start > 1 /\ line[sp.start - 1] \in { "'", "\"", ")" }
    \/ sp.end < Len(line) /\ line[sp.end + 1] \in { "'", "\"", "(" }

\* no letter of the token is lowercase
AllCaps(tok) == \A i \in 1..Len(tok) : tok[i] \notin LowerCase

\* the spans that pass every rule but de-duplication
Kept(line, cap) ==
    { sp \in Spans(line) :
        /\ ~ NeighbourDrop(line, sp)
        /\ Text(line, sp) \notin C_CPP_KEYWORDS
        /\ ~ (cap /\ AllCaps(Text(line, sp))) }

Elements(s) == { s[k] : k \in 1..Len(s) }

(* C11: the list name_filter returns holds no string twice and no member  *)
(* of the keyword set, for every line and both all-caps policies.         *)
C11_NoDuplicateNoKeyword ==
    pc = "returned" /\ "line" \in DOMAIN call
    => /\ \A a, b \in 1..Len(result) : a # b => result[a] # result[b]
       /\ \A a \in 1..Len(result) : result[a] \notin C_CPP_KEYWORDS

\* `int for = while;` yields no names
C11_Witness ==
    /\ pc = "returned"
    /\ "line" \in DOMAIN call
    /\ call.line = <<"i","n","t"," ","f","o","r"," ","="," ","w","h","i","l","e",";","\n">>
    /\ result = << >>

(* C12: a name is returned exactly when one of its spans has no quote     *)
(* and no `)` immediately before it, no quote and no `(` immediately      *)
(* after it, and passes the keyword and all-caps rules; a missing         *)
(* neighbour at the start or the end of the line drops nothing.           *)
C12_NeighbourRule ==
    pc = "returned" /\ "line" \in DOMAIN call
    => Elements(result) =
           { Text(call.line, sp) : sp \in Kept(call.line, cap_not_name) }

\* `x = "abc";` gives x and not abc
C12_Witness ==
    /\ pc = "returned"
    /\ "line" \in DOMAIN call
    /\ call.line = <<"x"," ","="," ","\"","a","b","c","\"",";","\n">>
    /\ result = << <<"x">> >>

\* where the name first occurs in the line, dropped or not
FirstOccurrence(line, tok) ==
    CHOOSE s \in { sp.start : sp \in { q \in Spans(line) : Text(line, q) = tok } } :
        \A sp \in Spans(line) : Text(line, sp) = tok => s <= sp.start

\* where the name first occurs in a span that passes the rules
FirstKept(line, cap, tok) ==
    CHOOSE s \in { sp.start : sp \in { q \in Kept(line, cap) : Text(line, q) = tok } } :
        \A sp \in Kept(line, cap) : Text(line, sp) = tok => s <= sp.start

\* the all-caps policy: enabled, no all-caps name is returned; disabled,
\* every all-caps name that passes the other rules is returned
AllCapsPolicy ==
    /\ cap_not_name => \A a \in 1..Len(result) : ~ AllCaps(result[a])
    /\ ~ cap_not_name =>
           \A sp \in Kept(call.line, FALSE) : Text(call.line, sp) \in Elements(result)

(* C13 as stated: the all-caps policy, and the returned names stand in    *)
(* the order of their first occurrence in the line.                       *)
C13_OrderOfFirstOccurrence ==
    pc = "returned" /\ "line" \in DOMAIN call
    => /\ AllCapsPolicy
       /\ \A a, b \in 1..Len(result) :
              a < b => FirstOccurrence(call.line, result[a])
                           < FirstOccurrence(call.line, result[b])

(* C13 amended: the all-caps policy, and the returned names stand in the  *)
(* order of their first occurrence that passes the quote / parenthesis,   *)
(* keyword and all-caps rules.                                            *)
C13_OrderOfFirstKeptOccurrence ==
    pc = "returned" /\ "line" \in DOMAIN call
    => /\ AllCapsPolicy
       /\ \A a, b \in 1..Len(result) :
              a < b => FirstKept(call.line, cap_not_name, result[a])
                           < FirstKept(call.line, cap_not_name, result[b])

\* `MAX_SIZE + count` with the policy disabled gives both names in order
C13_Witness ==
    /\ pc = "returned"
    /\ "line" \in DOMAIN call
    /\ ~ cap_not_name
    /\ call.line = <<"M","A","X","_","S","I","Z","E"," ","+"," ","c","o","u","n","t","\n">>
    /\ result = << <<"M","A","X","_","S","I","Z","E">>, <<"c","o","u","n","t">> >>

\* the resolution of the k-th conditional path of the i-th warning as the
\* conditional-path step asks for it: the warning's own line and column, no hint
AsPerformed(i, k) ==
    Resolution(cwd, CFP(in_json[i])[k].BranchLoc.fl,
               in_json[i].Location.ln, in_json[i].Location.cl, << >>)

(* C14: right after the resolution of a conditional path has failed, the  *)
(* warning's message is "No Such File In Conditions Analysis" when the    *)
(* outcome is NotFound (no match, or none left by disambiguation) and     *)
(* "Duplicated Files Found In Conditions Analysis" when it is Ambiguous;  *)
(* never "No Such File" or "Duplicated Files Found".                      *)
C14_ConditionMessages ==
    (pc = "cond" /\ ci >= 1 /\ AsPerformed(Cur, ci).tag # "Ok")
    => report[Cur].TransformMessage =
           IF AsPerformed(Cur, ci).tag = "NotFound" THEN NSFIC ELSE DFFIC

(* C15 as stated: a conditional path whose bare name has several matches *)
(* resolves exactly when one candidate has at least branchLine lines and  *)
(* a branchLine-th line of at least primaryColumn characters, and then    *)
(* its excerpt is that candidate's line.                                  *)
C15_BranchLineDisambiguates ==
    pc = "cond"
    => \A k \in 1..ci :
           LET c == CFP(in_json[Cur])[k]
               bl == c.BranchLoc.ln
               cands == CandidatesUnder(cwd, c.BranchLoc.fl)
               kept == { f \in cands :
                           /\ Len(ReadLines(f)) >= bl
                           /\ Len(ReadLines(f)[bl]) >= in_json[Cur].Location.cl }
               out == CFP(report[Cur])[k]
           IN  Cardinality(cands) > 1
               => /\ "CodeNear" \in DOMAIN out <=> Cardinality(kept) = 1
                  /\ "CodeNear" \in DOMAIN out
                         => \E f \in kept : out.CodeNear = Trimmed(ReadLines(f)[bl])

(* C15 amended: a conditional path whose bare name has several matches    *)
(* resolves exactly when one candidate has at least primaryLine lines and *)
(* a primaryLine-th line of at least primaryColumn characters (the line   *)
(* and the column of the warning, no hint), and then its excerpt is that  *)
(* candidate's line at the branch's line number.                          *)
C15_PrimaryLineDisambiguates ==
    pc = "cond"
    => \A k \in 1..ci :
           LET c == CFP(in_json[Cur])[k]
               bl == c.BranchLoc.ln
               pl == in_json[Cur].Location.ln
               cands == CandidatesUnder(cwd, c.BranchLoc.fl)
               kept == { f \in cands :
                           /\ Len(ReadLines(f)) >= pl
                           /\ Len(ReadLines(f)[pl]) >= in_json[Cur].Location.cl }
               out == CFP(report[Cur])[k]
           IN  Cardinality(cands) > 1
               => /\ "CodeNear" \in DOMAIN out <=> Cardinality(kept) = 1
                  /\ "CodeNear" \in DOMAIN out
                         => \E f \in kept : out.CodeNear = Trimmed(ReadLines(f)[bl])

\* a warning at line 2 whose path names b.c at line 1: only p/d2/b.c has a
\* second line, and the excerpt is its (blank) first line
C15_Witness ==
    /\ pc = "cond"
    /\ ci = 1
    /\ cwd = <<"p">>
    /\ in_json[Cur].Location.ln = 2
    /\ CFP(in_json[Cur])[1].BranchLoc = [fl |-> <<"b.c">>, ln |-> 1]
    /\ "CodeNear" \in DOMAIN CFP(report[Cur])[1]
    /\ CFP(report[Cur])[1].CodeNear = << >>

(* C16: every conditional path that resolved (it has a CodeNear) carries  *)
(* the path of a file of its bare name in BranchLoc.fl, and its CodeNear  *)
(* is the trimmed line of that file at the branch's line number.          *)
C16_BranchLocOverwrittenOnOk ==
    \A i \in 1..Len(report) :
        Started(i)
        => \A k \in 1..Len(CFP(report[i])) :
               LET out == CFP(report[i])[k]
                   c == CFP(in_json[i])[k]
               IN  "CodeNear" \in DOMAIN out
                   => \E f \in CandidatesUnder(cwd, c.BranchLoc.fl) :
                          /\ out.BranchLoc.fl = RelativeTo(cwd, f)
                          /\ Len(ReadLines(f)) >= c.BranchLoc.ln
                          /\ out.CodeNear = Trimmed(ReadLines(f)[c.BranchLoc.ln])

(* C17: at most one source file is open at any time, the primary source   *)
(* file is closed when the conditional paths are being resolved, and no   *)
(* file is open when the driver is at the head of the loop or has dumped. *)
C17_HandlesReleased ==
    /\ Cardinality(open_files) <= 1
    /\ pc = "cond" => open_files = {}
    /\ pc \in {"loop", "done"} => open_files = {}

(* C18: "Cannot Infer VarName" is on no warning at any time; every        *)
(* message is "", "No Such File", "Duplicated Files Found" or one of the  *)
(* two conditions-analysis variants; a warning whose primary location     *)
(* resolved and whose line gave no name leaves the pipeline with          *)
(* SuccessTransform = "True" and an empty message.                        *)
C18_NeverCannotInfer ==
    /\ \A i \in 1..Len(report) :
           Started(i)
           => /\ report[i].TransformMessage # CIV
              /\ report[i].TransformMessage \in {AC, NSF, DFF, NSFIC, DFFIC}
              /\ (Finished(i) /\ Primary(i).tag = "Ok" /\ report[i].Var = << >>)
                     => /\ report[i].SuccessTransform = true
                        /\ report[i].TransformMessage = AC
    /\ pc = "done"
           => \A i \in 1..Len(out_json[1]) :
                  out_json[1][i].TransformMessage \in {AC, NSF, DFF, NSFIC, DFFIC}

\* a dumped warning on `int f(){`, whose only names are keywords or calls
C18_Witness ==
    /\ pc = "done"
    /\ Len(report) = 1
    /\ Primary(1).tag = "Ok"
    /\ report[1].Var = << >>
    /\ report[1].CodeNear # << >>
    /\ out_json[1][1].SuccessTransform = true
    /\ out_json[1][1].TransformMessage = AC

\* a step of the conditional-path loop whose resolution fails
C19_FailingStep ==
    (pc = "cond" /\ ci < Len(CFP(report[Cur])) /\ AsPerformed(Cur, ci + 1).tag # "Ok")
    => /\ report'[Cur] =
              [report[Cur] EXCEPT !.SuccessTransform = false,
                                  !.TransformMessage = report'[Cur].TransformMessage]
       /\ report'[Cur].TransformMessage # AC
       /\ CFP(report'[Cur])[ci + 1] = CFP(in_json[Cur])[ci + 1]
       /\ "CodeNear" \notin DOMAIN CFP(report'[Cur])[ci + 1]
       /\ \A j \in 1..Len(report) : j # Cur => report'[j] = report[j]

(* C19: a conditional-path step whose resolution fails changes only the   *)
(* warning's SuccessTransform and TransformMessage: the failed path       *)
(* keeps its bare filename and gets no CodeNear; Var, CodeNear,           *)
(* Location and every other warning stay as they were.                    *)
C19_FailureChangesOnlyStatus == [][C19_FailingStep]_vars

\* the second conditional path has just failed on a warning with inferred
\* names, an excerpt and a resolved file, after a first one had resolved
C19_Witness ==
    /\ pc = "cond"
    /\ ci = 2
    /\ AsPerformed(Cur, 2).tag # "Ok"
    /\ "CodeNear" \in DOMAIN CFP(report[Cur])[1]
    /\ CFP(report[Cur])[2] = CFP(in_json[Cur])[2]
    /\ report[Cur].SuccessTransform = false
    /\ report[Cur].Var # << >>
    /\ report[Cur].CodeNear # << >>
    /\ report[Cur].Location.fl # in_json[Cur].Location.fl

====
